---- MODULE Spec2Model ----
(***************************************************************************)
(* Model of parse-duration (src/unnamed/part_001): parseDurationMs and     *)
(* parseColonTimeToMs.  A string is a sequence of one-character strings.   *)
(* A JavaScript number is modelled as an exact signed decimal below the    *)
(* binary64 overflow threshold, and as Infinity / NaN otherwise; the       *)
(* 53-bit mantissa rounding of binary64 is not modelled.                   *)
(***************************************************************************)
EXTENDS Integers, Sequences, FiniteSets, TLC

(***************************************************************************)
(* Characters and strings                                                  *)
(***************************************************************************)
DigitChars == <<"0","1","2","3","4","5","6","7","8","9">>

LowerChars == <<"a","b","c","d","e","f","g","h","i","j","k","l","m",
                "n","o","p","q","r","s","t","u","v","w","x","y","z">>

UpperChars == <<"A","B","C","D","E","F","G","H","I","J","K","L","M",
                "N","O","P","Q","R","S","T","U","V","W","X","Y","Z">>

Range(f) == { f[i] : i \in DOMAIN f }

IndexOf(f, c) == CHOOSE i \in DOMAIN f : f[i] = c

\* \d
Digits == Range(DigitChars)

\* [a-zA-Z]
Letters == Range(LowerChars) \cup Range(UpperChars)

\* \s, and the characters String.prototype.trim removes
Spaces == {" ", "\t", "\n"}

\* [+-]
Signs == {"+", "-"}

DigitVal(c) == IndexOf(DigitChars, c) - 1

\* String.prototype.toLowerCase on one character
LowerChar(c) == IF c \in Range(UpperChars) THEN LowerChars[IndexOf(UpperChars, c)] ELSE c

\* toLowerCase left out: the text as written
keepCase(s) == s

toLowerCase(s) == [i \in 1..Len(s) |-> LowerChar(s[i])]

\* s.substring(a - 1, b): the characters at 1-based positions a..b
Slice(s, a, b) == IF b < a THEN <<>> ELSE SubSeq(s, a, b)

\* the first position >= i of s whose character is not in the class cs (Len(s)+1 if none)
SkipWhile(s, i, cs) ==
    CHOOSE j \in i..(Len(s) + 1) :
        /\ j = Len(s) + 1 \/ s[j] \notin cs
        /\ \A k \in i..(j - 1) : s[k] \in cs

\* the first position >= i of s that holds the character c (Len(s)+1 if none)
FindChar(s, i, c) ==
    CHOOSE j \in i..(Len(s) + 1) :
        /\ j = Len(s) + 1 \/ s[j] = c
        /\ \A k \in i..(j - 1) : s[k] # c

\* the last position <= i of s that is not whitespace (0 if none)
SkipBack(s, i) ==
    CHOOSE j \in 0..i :
        /\ j = 0 \/ s[j] \notin Spaces
        /\ \A k \in (j + 1)..i : s[k] \in Spaces

\* String.prototype.trim
trim(s) == Slice(s, SkipWhile(s, 1, Spaces), SkipBack(s, Len(s)))

\* String.prototype.includes for a single character
includes(s, c) == \E i \in 1..Len(s) : s[i] = c

\* String.prototype.startsWith for a single character
startsWith(s, c) == Len(s) >= 1 /\ s[1] = c

RECURSIVE split(_, _)
\* String.prototype.split on a single-character separator
split(s, c) ==
    LET j == FindChar(s, 1, c)
    IN  IF j > Len(s) THEN <<s>>
        ELSE <<Slice(s, 1, j - 1)>> \o split(Slice(s, j + 1, Len(s)), c)

RECURSIVE Concat(_)
\* the concatenation of a sequence of strings
Concat(ss) == IF ss = <<>> THEN <<>> ELSE Head(ss) \o Concat(Tail(ss))

\* a string of n copies of the character c
Repeat(c, n) == [i \in 1..n |-> c]

(***************************************************************************)
(* Natural numbers of any size: digit sequences, least significant first,  *)
(* without leading (high-order) zeros; zero is the empty sequence.         *)
(***************************************************************************)
Reverse(s) == [i \in 1..Len(s) |-> s[Len(s) + 1 - i]]

\* a without its high-order zeros
NatNorm(a) ==
    LET n == CHOOSE m \in 0..Len(a) :
                 /\ m = 0 \/ a[m] # 0
                 /\ \A k \in (m + 1)..Len(a) : a[k] = 0
    IN  SubSeq(a, 1, n)

\* the digit of a at position i
NatAt(a, i) == IF i <= Len(a) THEN a[i] ELSE 0

RECURSIVE NatOfInt(_)
NatOfInt(n) == IF n = 0 THEN <<>> ELSE <<n % 10>> \o NatOfInt(n \div 10)

RECURSIVE NatAddC(_, _, _, _, _)
\* the digits lo..hi of a + b given the carry c into lo, and the carry out of hi
NatAddC(a, b, lo, hi, c) ==
    IF lo > hi THEN [d |-> <<>>, c |-> c]
    ELSE IF lo = hi
    THEN LET t == NatAt(a, lo) + NatAt(b, lo) + c IN [d |-> <<t % 10>>, c |-> t \div 10]
    ELSE LET mid == (lo + hi) \div 2
             L == NatAddC(a, b, lo, mid, c)
             R == NatAddC(a, b, mid + 1, hi, L.c)
         IN  [d |-> L.d \o R.d, c |-> R.c]

NatAdd(a, b) ==
    LET r == NatAddC(a, b, 1, IF Len(a) > Len(b) THEN Len(a) ELSE Len(b), 0)
    IN  NatNorm(r.d \o <<r.c>>)

RECURSIVE NatSubB(_, _, _, _, _)
\* the digits lo..hi of a - b given the borrow c from lo, and the borrow out of hi
NatSubB(a, b, lo, hi, c) ==
    IF lo > hi THEN [d |-> <<>>, c |-> c]
    ELSE IF lo = hi
    THEN LET t == NatAt(a, lo) - NatAt(b, lo) - c
         IN  [d |-> <<(t + 10) % 10>>, c |-> IF t < 0 THEN 1 ELSE 0]
    ELSE LET mid == (lo + hi) \div 2
             L == NatSubB(a, b, lo, mid, c)
             R == NatSubB(a, b, mid + 1, hi, L.c)
         IN  [d |-> L.d \o R.d, c |-> R.c]

\* a - b, for a >= b
NatSub(a, b) == NatNorm(NatSubB(a, b, 1, Len(a), 0).d)

RECURSIVE NatMulC(_, _, _, _, _)
\* the digits lo..hi of a * k given the carry c into lo, and the carry out of hi
NatMulC(a, k, lo, hi, c) ==
    IF lo > hi THEN [d |-> <<>>, c |-> c]
    ELSE IF lo = hi
    THEN LET t == a[lo] * k + c IN [d |-> <<t % 10>>, c |-> t \div 10]
    ELSE LET mid == (lo + hi) \div 2
             L == NatMulC(a, k, lo, mid, c)
             R == NatMulC(a, k, mid + 1, hi, L.c)
         IN  [d |-> L.d \o R.d, c |-> R.c]

\* a * k, for a machine-sized k >= 0
NatMul(a, k) ==
    LET r == NatMulC(a, k, 1, Len(a), 0) IN NatNorm(r.d \o NatOfInt(r.c))

\* a * 10^n
NatShift(a, n) == IF a = <<>> THEN a ELSE [i \in 1..n |-> 0] \o a

\* a \div 10^n
NatDrop(a, n) == IF n >= Len(a) THEN <<>> ELSE SubSeq(a, n + 1, Len(a))

\* a < b
NatLess(a, b) ==
    IF Len(a) # Len(b) THEN Len(a) < Len(b)
    ELSE \E i \in 1..Len(a) : a[i] < b[i] /\ \A k \in (i + 1)..Len(a) : a[k] = b[k]

\* the digits of a digit string, as a natural number
NatOfDigits(s) == NatNorm(Reverse([i \in 1..Len(s) |-> DigitVal(s[i])]))

(***************************************************************************)
(* JavaScript numbers.  A finite number is (-1)^neg * mag / 10^sc, kept    *)
(* with the smallest sc; +0 and -0 are distinct.  A result whose magnitude *)
(* reaches 2^1024 - 2^970 is +/-Infinity, as in binary64.                  *)
(***************************************************************************)
\* 2^1024 - 2^970: the least magnitude that a binary64 operation rounds to Infinity
OverflowAt ==
    Reverse(<<
        1,7,9,7,6,9,3,1,3,4,8,6,2,3,1,5,8,0,7,9,3,7,2,8,9,7,1,4,0,5,3,0,3,4,1,5,0,7,9,9,3,4,1,3,2,7,1,0,0,3,
        7,8,2,6,9,3,6,1,7,3,7,7,8,9,8,0,4,4,4,9,6,8,2,9,2,7,6,4,7,5,0,9,4,6,6,4,9,0,1,7,9,7,7,5,8,7,2,0,7,0,
        9,6,3,3,0,2,8,6,4,1,6,6,9,2,8,8,7,9,1,0,9,4,6,5,5,5,5,4,7,8,5,1,9,4,0,4,0,2,6,3,0,6,5,7,4,8,8,6,7,1,
        5,0,5,8,2,0,6,8,1,9,0,8,9,0,2,0,0,0,7,0,8,3,8,3,6,7,6,2,7,3,8,5,4,8,4,5,8,1,7,7,1,1,5,3,1,7,6,4,4,7,
        5,7,3,0,2,7,0,0,6,9,8,5,5,5,7,1,3,6,6,9,5,9,6,2,2,8,4,2,9,1,4,8,1,9,8,6,0,8,3,4,9,3,6,4,7,5,2,9,2,7,
        1,9,0,7,4,1,6,8,4,4,4,3,6,5,5,1,0,7,0,4,3,4,2,7,1,1,5,5,9,6,9,9,5,0,8,0,9,3,0,4,2,8,8,0,1,7,7,9,0,4,
        1,7,4,4,9,7,7,9,2
    >>)

NaN == [k |-> "nan", neg |-> FALSE, mag |-> <<>>, sc |-> 0]

Infinity(neg) == [k |-> "inf", neg |-> neg, mag |-> <<>>, sc |-> 0]

\* the finite number (-1)^neg * mag / 10^sc, without the trailing zeros of its fraction
Finite(neg, mag, sc) ==
    LET z == CHOOSE n \in 0..sc :
                 /\ n = sc \/ NatAt(mag, n + 1) # 0
                 /\ \A k \in 1..n : NatAt(mag, k) = 0
    IN  [k |-> "fin", neg |-> neg, mag |-> NatDrop(mag, z), sc |-> sc - z]

\* the binary64 value of the real (-1)^neg * mag / 10^sc
Double(neg, mag, sc) ==
    IF Len(mag) - sc >= Len(OverflowAt) /\ ~NatLess(mag, NatShift(OverflowAt, sc))
    THEN Infinity(neg)
    ELSE Finite(neg, mag, sc)

\* an integer literal
Lit(n) == Finite(n < 0, NatOfInt(IF n < 0 THEN -n ELSE n), 0)

IsZero(x) == x.k = "fin" /\ x.mag = <<>>

\* !Number.isNaN in place of Number.isFinite: the infinities pass
isNotNaN(x) == x.k # "nan"

\* Number.isFinite
isFinite(x) == x.k = "fin"

\* Number.isInteger
isInteger(x) == x.k = "fin" /\ x.sc = 0

\* Number(s), for s of the form [+-]?\d+(\.\d+)?
Number(s) ==
    LET body == IF Len(s) >= 1 /\ s[1] \in Signs THEN Tail(s) ELSE s
        dot  == FindChar(body, 1, ".")
        int  == Slice(body, 1, dot - 1)
        frac == Slice(body, dot + 1, Len(body))
    IN  Double(startsWith(s, "-"), NatOfDigits(int \o frac), Len(frac))

\* unary minus
Negate(x) == IF x.k = "nan" THEN x ELSE [x EXCEPT !.neg = ~x.neg]

\* Math.abs
abs(x) == IF x.k = "nan" THEN x ELSE [x EXCEPT !.neg = FALSE]

\* x + y
Plus(x, y) ==
    IF x.k = "nan" \/ y.k = "nan" THEN NaN
    ELSE IF x.k = "inf" /\ y.k = "inf" THEN (IF x.neg = y.neg THEN x ELSE NaN)
    ELSE IF x.k = "inf" THEN x
    ELSE IF y.k = "inf" THEN y
    ELSE LET sc == IF x.sc > y.sc THEN x.sc ELSE y.sc
             a  == NatShift(x.mag, sc - x.sc)
             b  == NatShift(y.mag, sc - y.sc)
         IN  IF x.neg = y.neg THEN Double(x.neg, NatAdd(a, b), sc)
             ELSE IF a = b THEN Finite(FALSE, <<>>, 0)
             ELSE IF NatLess(a, b) THEN Double(y.neg, NatSub(b, a), sc)
             ELSE Double(x.neg, NatSub(a, b), sc)

\* x * n, for an integer n other than 0
Times(x, n) ==
    IF x.k = "nan" THEN NaN
    ELSE IF x.k = "inf" THEN Infinity(x.neg # (n < 0))
    ELSE Double(x.neg # (n < 0), NatMul(x.mag, IF n < 0 THEN -n ELSE n), x.sc)

\* x < y
Less(x, y) ==
    IF x.k = "nan" \/ y.k = "nan" THEN FALSE
    ELSE IF x.k = "inf" \/ y.k = "inf"
         THEN x # y /\ ((x.k = "inf" /\ x.neg) \/ (y.k = "inf" /\ ~y.neg))
    ELSE LET d == Plus(x, Negate(y)) IN d.neg /\ ~IsZero(d)

\* Math.trunc in place of Math.round: the fraction is dropped
truncate(x) ==
    IF x.k # "fin" \/ x.sc = 0 THEN x
    ELSE Finite(x.neg, NatDrop(x.mag, x.sc), 0)

\* round with ties away from zero
roundHalfAway(x) ==
    IF x.k # "fin" \/ x.sc = 0 THEN x
    ELSE Finite(x.neg, NatDrop(NatAdd(x.mag, [i \in 1..x.sc |-> IF i = x.sc THEN 5 ELSE 0]), x.sc), 0)

\* Math.round: the nearest integer, ties toward +Infinity; the sign of a zero
\* result is the sign of the argument
round(x) ==
    IF x.k # "fin" \/ x.sc = 0 THEN x
    ELSE LET half == [i \in 1..x.sc |-> IF i = x.sc THEN 5 ELSE 0]
             below == [i \in 1..x.sc |-> IF i = x.sc THEN 4 ELSE 9]
         IN  Finite(x.neg, NatDrop(NatAdd(x.mag, IF x.neg THEN below ELSE half), x.sc), 0)

(***************************************************************************)
(* The unit table and the token pattern                                    *)
(***************************************************************************)
\* the own properties of the UNIT_MS object literal
UNIT_MS ==
    (<<"m","s">> :> 1) @@
    (<<"m","i","l","l","i","s","e","c","o","n","d">> :> 1) @@
    (<<"m","i","l","l","i","s","e","c","o","n","d","s">> :> 1) @@
    (<<"m","s","e","c">> :> 1) @@
    (<<"m","s","e","c","s">> :> 1) @@
    (<<"s">> :> 1000) @@
    (<<"s","e","c">> :> 1000) @@
    (<<"s","e","c","s">> :> 1000) @@
    (<<"s","e","c","o","n","d">> :> 1000) @@
    (<<"s","e","c","o","n","d","s">> :> 1000) @@
    (<<"m">> :> 60000) @@
    (<<"m","i","n">> :> 60000) @@
    (<<"m","i","n","s">> :> 60000) @@
    (<<"m","i","n","u","t","e">> :> 60000) @@
    (<<"m","i","n","u","t","e","s">> :> 60000) @@
    (<<"h">> :> 3600000) @@
    (<<"h","r">> :> 3600000) @@
    (<<"h","r","s">> :> 3600000) @@
    (<<"h","o","u","r">> :> 3600000) @@
    (<<"h","o","u","r","s">> :> 3600000) @@
    (<<"d">> :> 86400000) @@
    (<<"d","a","y">> :> 86400000) @@
    (<<"d","a","y","s">> :> 86400000)

\* The property names UNIT_MS inherits from Object.prototype that a lowercased
\* [a-zA-Z]+ word can spell.  Every other inherited name (hasOwnProperty,
\* isPrototypeOf, propertyIsEnumerable, toLocaleString, toString, valueOf,
\* __proto__, ...) holds a capital letter or an underscore.
InheritedKeys == { <<"c","o","n","s","t","r","u","c","t","o","r">> }

\* UNIT_MS[unit]: a number, an inherited function, or undefined
Lookup(unit) ==
    IF unit \in DOMAIN UNIT_MS THEN [k |-> "number", ms |-> UNIT_MS[unit]]
    ELSE IF unit \in InheritedKeys THEN [k |-> "function", ms |-> 0]
    ELSE [k |-> "undefined", ms |-> 0]

\* isDurationUnit(unit): unit is one of the spellings of the unit table, as written
isDurationUnit(unit) == unit \in DOMAIN UNIT_MS

\* value * msPer
TimesMsPer(value, msPer) ==
    IF msPer.k = "number" THEN Times(value, msPer.ms) ELSE NaN

NoMatch == [ok |-> FALSE, from |-> 0, numEnd |-> 0, unitFrom |-> 0, end |-> 0]

\* TOKEN_REG_EX anchored at position i of s:
\* ([+-]?\d+(?:\.\d+)?)\s*([a-zA-Z]+).  Every quantifier is greedy and is
\* followed by a disjoint character class, so backtracking finds no other match.
MatchAt(s, i) ==
    LET p1 == IF i <= Len(s) /\ s[i] \in Signs THEN i + 1 ELSE i
        p2 == SkipWhile(s, p1, Digits)
        f  == IF p2 <= Len(s) /\ s[p2] = "." THEN SkipWhile(s, p2 + 1, Digits) ELSE p2
        p3 == IF f > p2 + 1 THEN f ELSE p2
        p4 == SkipWhile(s, p3, Spaces)
        p5 == SkipWhile(s, p4, Letters)
    IN  IF p2 > p1 /\ p5 > p4
        THEN [ok |-> TRUE, from |-> i, numEnd |-> p3 - 1, unitFrom |-> p4, end |-> p5 - 1]
        ELSE NoMatch

\* TOKEN_REG_EX.exec with lastIndex = at: the leftmost match that starts at
\* index >= at (0-based), or no match
Exec(s, at) ==
    LET starts == { i \in (at + 1)..Len(s) : MatchAt(s, i).ok }
    IN  IF starts = {} THEN NoMatch
        ELSE MatchAt(s, CHOOSE i \in starts : \A j \in starts : i <= j)

\* match[1] and match[2]
Group1(s, m) == Slice(s, m.from, m.numEnd)

Group2(s, m) == Slice(s, m.unitFrom, m.end)

RECURSIVE ReplaceFrom(_, _)
\* s.replace(TOKEN_REG_EX, '') from index at on: the text outside the matches
ReplaceFrom(s, at) ==
    LET m == Exec(s, at)
    IN  IF ~m.ok THEN Slice(s, at + 1, Len(s))
        ELSE Slice(s, at + 1, m.from - 1) \o ReplaceFrom(s, m.end)

\* /^\d+$/
IsDigits(s) == Len(s) >= 1 /\ \A i \in 1..Len(s) : s[i] \in Digits

\* /^[+-]?\d+$/
IsSignedInteger(s) ==
    IsDigits(IF Len(s) >= 1 /\ s[1] \in Signs THEN Tail(s) ELSE s)

\* /^\d+(?:\.\d+)?$/
IsDecimal(s) ==
    LET dot == FindChar(s, 1, ".")
    IN  IsDigits(Slice(s, 1, dot - 1)) /\ (dot > Len(s) \/ IsDigits(Slice(s, dot + 1, Len(s))))

\* /^[+-]?\d+(?:\.\d+)?$/
IsSignedDecimal(s) ==
    IsDecimal(IF Len(s) >= 1 /\ s[1] \in Signs THEN Tail(s) ELSE s)

(***************************************************************************)
(* Error messages                                                          *)
(***************************************************************************)
Prefix == <<"p","a","r","s","e","D","u","r","a","t","i","o","n","M","s",":"," ">>

Quote == <<"\"">>

InvalidColonText == <<"i","n","v","a","l","i","d"," ","\"",":","\""," ","d","u","r","a","t","i","o","n"," ","\"">>

InvalidNumberText == <<"i","n","v","a","l","i","d"," ","n","u","m","b","e","r"," ","\"">>

UnknownUnitText == <<"u","n","k","n","o","w","n"," ","u","n","i","t"," ","\"">>

CouldNotParseText == <<"c","o","u","l","d"," ","n","o","t"," ","f","u","l","l","y"," ","p","a","r","s","e"," ","\"">>

InText == <<"\""," ","i","n"," ","\"">>

\* `parseDurationMs: invalid ":" duration "${raw}"`
InvalidColonMessage(r) == Prefix \o InvalidColonText \o r \o Quote

\* `parseDurationMs: invalid number "${raw}"`
InvalidUnitlessMessage(r) == Prefix \o InvalidNumberText \o r \o Quote

\* `parseDurationMs: invalid number "${match[1]}" in "${raw}"`
InvalidNumberMessage(num, r) == Prefix \o InvalidNumberText \o num \o InText \o r \o Quote

\* `parseDurationMs: unknown unit "${match[2]}" in "${raw}"`
UnknownUnitMessage(unit, r) == Prefix \o UnknownUnitText \o unit \o InText \o r \o Quote

\* CouldNotParseMessage with the trimmed input in place of the original
CouldNotParseMessageTrimmed(r) == Prefix \o CouldNotParseText \o trim(r) \o Quote

\* `parseDurationMs: could not fully parse "${raw}"`
CouldNotParseMessage(r) == Prefix \o CouldNotParseText \o r \o Quote

(***************************************************************************)
(* parseColonTimeToMs                                                      *)
(***************************************************************************)
Null == [k |-> "null", neg |-> FALSE, mag |-> <<>>, sc |-> 0]

\* InRange with the upper bound included
InRangeInclusive(x) == ~Less(x, Lit(0)) /\ ~Less(Lit(60), x)

\* !(x < 0 || x >= 60)
InRange(x) == ~(Less(x, Lit(0)) \/ ~Less(x, Lit(60)))

\* ColonTotal with the hour multiplier copied to the minutes
ColonTotalMinutesAsHours(sign, hours, minutes, seconds) ==
    Times(Plus(Plus(Times(hours, 3600000), Times(minutes, 3600000)), Times(seconds, 1000)), sign)

\* ColonTotal with the sign applied to the hour term alone
ColonTotalSignOnHours(sign, hours, minutes, seconds) ==
    Plus(Plus(Times(Times(hours, 3600000), sign), Times(minutes, 60000)), Times(seconds, 1000))

\* (hours * 3_600_000 + minutes * 60_000 + seconds * 1_000) * sign
ColonTotal(sign, hours, minutes, seconds) ==
    Times(Plus(Plus(Times(hours, 3600000), Times(minutes, 60000)), Times(seconds, 1000)), sign)

parseColonTimeToMs(s) ==
    LET parts == split(s, ":")
        three == Len(parts) = 3
        hStr == trim(parts[1])
        mStr == trim(parts[2])
        sStr == trim(parts[3])
        sign == IF startsWith(hStr, "-") THEN -1 ELSE 1
        hours == abs(Number(hStr))
        minutes == Number(mStr)
        seconds == IF three THEN Number(sStr) ELSE Lit(0)
        total == ColonTotal(sign, hours, minutes, seconds)
    IN  IF Len(parts) # 2 /\ Len(parts) # 3 THEN Null
        ELSE IF hStr = <<>> \/ mStr = <<>> THEN Null
        ELSE IF ~IsSignedInteger(hStr) THEN Null
        ELSE IF ~IsDigits(mStr) THEN Null
        ELSE IF three /\ ~IsDecimal(sStr) THEN Null
        ELSE IF ~isFinite(hours) \/ ~isFinite(minutes) \/ ~isFinite(seconds) THEN Null
        ELSE IF ~InRange(minutes) THEN Null
        ELSE IF ~InRange(seconds) THEN Null
        ELSE round(total)

(***************************************************************************)
(* Inputs of the model                                                     *)
(***************************************************************************)
\* the most pieces a token-list input is assembled from
MaxPieces == 3

\* the most colon-separated segments a clock input is assembled from
MaxSegments == 4

\* a digit count whose value is beyond the binary64 range
HugeDigits == 310

\* a digit count whose value is finite but overflows once multiplied by a unit
LargeDigits == 305

\* tokens, separators and junk that token-list inputs are assembled from
TokenPieces == {
    <<"1","h">>, <<"-","3","0","m">>, <<"0",".","2","5","m","s">>, <<"1",".","5"," ","H">>,
    <<"1","x">>, <<"2","c","o","n","s","t","r","u","c","t","o","r">>, <<" ">>, <<",">>, <<"3","0">>,
    <<"+","2"," ","M","i","n","s">>
}

\* the texts between the colons of clock inputs
SegmentTexts == {
    <<>>, <<"-","0">>, <<"+","2">>, <<"5","9">>, <<"6","0">>, <<"5","9",".","5">>, <<" ","7"," ">>,
    <<"3","a">>, <<"1",".">>
}

\* inputs of the test suite and the README, and variations of them
ExtraInputs == {
    <<"\n","\t"," "," ">>, <<"\t">>, <<"1","5","0","0",".","5">>, <<"-","1","5","0","0",".","5">>,
    <<" "," ","1","2","3",".","9"," "," ">>, <<"-","0",".","5">>, <<"0",".","4">>, <<"+","7">>,
    <<"1",".",".","5">>, <<".","5">>, <<"5",".">>, <<"1","h"," ","-","3","0","m">>,
    <<"0",".","2","5","m","s"," ","0",".","2","5","m","s">>, <<"-","0",".","5","m","s">>,
    <<"0",".","5","m","s">>, <<"1","h","\t","3","0","m","\n","1","5","s">>,
    <<"2","d"," ","3","h"," ","4","m"," ","5","s"," ","6","m","s">>, <<"1","0","S","e","c","S">>,
    <<"1"," ","c","o","n","s","t","r","u","c","t","o","r">>,
    <<"3"," ","C","o","n","s","t","r","u","c","t","o","r"," ","1","h">>,
    <<"1","x"," ","a","b","c">>, <<"1","0"," ","f","o","o"," ","2"," ","b","a","r">>,
    <<"1","h"," ","a","b","c">>, <<"a","b","c">>, <<"N","a","N">>,
    <<"I","n","f","i","n","i","t","y">>, <<"1","h","2">>, <<"+","-","1","h">>,
    <<"1",".","5",".","5","h">>, <<"5"," ","m","i","l","l","i","s","e","c","o","n","d","s">>,
    <<"2"," ","h","r","s"," ","1"," ","m","i","n","u","t","e">>, <<"1",":","3","0","h">>,
    <<"a","b","c","1",":","3","0">>, <<" ","-","0","0",":","3","0"," ">>,
    <<"-","0","0",":","0","0",":","0","0",".","5","0","0">>,
    <<"0","1",":","3","0",":","1","5",".","2","5","0">>, <<"-","0","1",":","3","0">>,
    <<"1",":","2",":","3",":","4",":","5">>, <<"0","0",":","0","0",":","0","1",".","2",".","3">>,
    <<"1"," ",":"," ","3","0">>, <<"0",":","5","9",":","5","9",".","9","9","9">>,
    <<"0","1",":","-","3","0">>, <<"1",".","5",":","3","0">>, <<"1"," ","h",":","2">>,
    <<"0",".","5">>, <<"-","0",".","2","5">>, <<"-","1",".","0">>,
    <<"3","0","m"," ","1","h">>, <<"1","h"," ","3","0","m">>, <<"1","0","s","1","m","2","0","S">>,
    <<"2",":","3","0",":","1","5",".","5">>, <<"-","2",":","3","0",":","1","5",".","5">>,
    <<"1","2",":","0","0">>, <<"-","1",":","0","0",":","0","0",".","0","0","0","5">>,
    <<"-","7",":","0","5">>, <<"0","0","7",":","0","0","5",":","0","0","9",".","2","5","0">>,
    <<"0",".","0","0","0","5","s">>, <<"-","1",".","5","0","0","5","s">>,
    <<"-","0",".","0","0","0","5","s">>, <<"-","0",".","2","5","m","s">>,
    <<"0",":","0","0",":","0","0",".","0","0","0","5">>,
    <<"-","0",":","0","0",":","0","0",".","0","0","0","5">>,
    <<"-","0",":","0","0",":","0","1",".","5","0","0","5">>,
    <<"0","1",":","0","0",":","0","1",".","5","0","0","5">>,
    <<"-","0",":","0","0",":","0","0",".","0","0","0","2">>
}

\* inputs with numbers at and beyond the binary64 range
LongInputs == {
    Repeat("9", HugeDigits),
    <<" ", "-">> \o Repeat("9", HugeDigits) \o <<".", "5", " ">>,
    Repeat("9", HugeDigits) \o <<"h">>,
    <<" ">> \o Repeat("9", HugeDigits) \o <<"h", "\n">>,
    <<"1", "m", " ">> \o Repeat("9", HugeDigits) \o <<" ", "x">>,
    <<"1", "x", " ">> \o Repeat("9", HugeDigits) \o <<"h">>,
    <<"1">> \o Repeat("0", LargeDigits),
    <<"1">> \o Repeat("0", LargeDigits) \o <<"d">>,
    <<"1">> \o Repeat("0", LargeDigits) \o <<"m", "s">>,
    <<"1">> \o Repeat("0", LargeDigits) \o <<"d", " ", "-", "1">> \o Repeat("0", LargeDigits) \o <<"d">>,
    Repeat("9", HugeDigits) \o <<":", "0", "0">>,
    <<"1">> \o Repeat("0", LargeDigits) \o <<":", "3", "0">>,
    <<"-", "1">> \o Repeat("0", LargeDigits) \o <<":", "3", "0">>,
    <<"1", ":">> \o Repeat("9", HugeDigits),
    <<"1", ":", "0", ":">> \o Repeat("0", HugeDigits) \o <<"1">>,
    <<"1">> \o Repeat("0", LargeDigits) \o <<"s", " ", "1">> \o Repeat("0", LargeDigits)
        \o <<"s", " ", "-", "1">> \o Repeat("0", LargeDigits) \o <<"s">>,
    <<"1">> \o Repeat("0", LargeDigits) \o <<"s", " ", "-", "1">> \o Repeat("0", LargeDigits)
        \o <<"s", " ", "1">> \o Repeat("0", LargeDigits) \o <<"s">>
}

\* a lowercase word in capitals, and with its first letter alone in capitals
Capitals(u) == [i \in 1..Len(u) |-> UpperChars[IndexOf(LowerChars, u[i])]]

Capitalised(u) == [i \in 1..Len(u) |-> IF i = 1 THEN Capitals(u)[1] ELSE u[i]]

\* every spelling of the unit table in three letter cases
UnitWords == UNION { {u, Capitals(u), Capitalised(u)} : u \in DOMAIN UNIT_MS }

\* one token for every such word
UnitInputs == { <<"7">> \o w : w \in UnitWords }

\* the arguments isDurationUnit is called with: the unit words, padded ones,
\* and the words of the test suite that are no units
UnitArguments ==
    UnitWords \cup { <<" ">> \o u : u \in DOMAIN UNIT_MS } \cup { u \o <<" ">> : u \in DOMAIN UNIT_MS }
    \cup { <<>>, <<"x">>, <<"f","o","o">>, <<"m","i","l","l","i","s">>, <<"1","s">>, <<"s","2">>,
           <<"t","h","i","s","i","s","n","o","t","a","v","a","l","i","d","u","n","i","t">>,
           <<"m","S">>, <<"h","o","u","r","s","s">>, <<"d","a">>, <<"m","s","m","s">> }

\* every concatenation of at most n texts of the set ts, glued by the string sep
Joined(ts, n, sep) ==
    { Concat([i \in 1..(2 * Len(ps) - 1) |-> IF i % 2 = 1 THEN ps[(i + 1) \div 2] ELSE sep]) :
        ps \in UNION { [1..m -> ts] : m \in 1..n } }

Inputs ==
    {<<>>} \cup Joined(TokenPieces, MaxPieces, <<>>) \cup Joined(SegmentTexts, MaxSegments, <<":">>)
           \cup ExtraInputs \cup LongInputs \cup UnitInputs

(***************************************************************************)
(* parseDurationMs as a state machine                                      *)
(***************************************************************************)
VARIABLES
    pc,          \* "idle", "dispatch", "scan", "done", or "answered" by isDurationUnit
    raw,         \* const raw = String(input)
    trimmed,     \* const trimmed = raw.trim()
    total,       \* let total
    matchedAny,  \* let matchedAny
    cursor,      \* lastIndex of the matcher that trimmed.matchAll iterates with
    lastIndex,   \* TOKEN_REG_EX.lastIndex, shared by all calls
    outcome,     \* how the call ended: a returned number or a thrown message
    unitArg,     \* the argument of a call of isDurationUnit
    isUnit,      \* what that call returned (FALSE outside a call)
    abandoned    \* history: an earlier call threw "unknown unit" from inside its loop

vars == <<pc, raw, trimmed, total, matchedAny, cursor, lastIndex, outcome, unitArg, isUnit, abandoned>>

Pending == [kind |-> "none", value |-> Null, message |-> <<>>]

Return(v) == [kind |-> "return", value |-> v, message |-> <<>>]

Throw(msg) == [kind |-> "throw", value |-> Null, message |-> msg]

Init ==
    /\ pc = "idle"
    /\ raw = <<>>
    /\ trimmed = <<>>
    /\ total = Lit(0)
    /\ matchedAny = FALSE
    /\ cursor = 0
    /\ lastIndex = 0
    /\ outcome = Pending
    /\ unitArg = <<>>
    /\ isUnit = FALSE
    /\ abandoned = FALSE

\* parseDurationMs(input) is entered: raw and trimmed are set
Call ==
    /\ pc = "idle"
    /\ \E input \in Inputs :
           /\ raw' = input
           /\ trimmed' = trim(input)
    /\ pc' = "dispatch"
    /\ UNCHANGED <<total, matchedAny, cursor, lastIndex, outcome, unitArg, isUnit, abandoned>>

\* ReturnEmpty without the special case for blank input: the blank input goes on
\* to the token scan, which finds nothing
ReturnEmptyMissing ==
    /\ pc = "dispatch"
    /\ trimmed = <<>>
    /\ outcome' = Throw(CouldNotParseMessage(raw))
    /\ pc' = "done"
    /\ UNCHANGED <<raw, trimmed, total, matchedAny, cursor, lastIndex, unitArg, isUnit, abandoned>>

\* if (!trimmed) return 0
ReturnEmpty ==
    /\ pc = "dispatch"
    /\ trimmed = <<>>
    /\ outcome' = Return(Lit(0))
    /\ pc' = "done"
    /\ UNCHANGED <<raw, trimmed, total, matchedAny, cursor, lastIndex, unitArg, isUnit, abandoned>>

\* if (trimmed.includes(':')) ...
ColonBranch ==
    /\ pc = "dispatch"
    /\ trimmed # <<>>
    /\ includes(trimmed, ":")
    /\ LET ms == parseColonTimeToMs(trimmed)
       IN  outcome' = IF ms = Null THEN Throw(InvalidColonMessage(raw)) ELSE Return(ms)
    /\ pc' = "done"
    /\ UNCHANGED <<raw, trimmed, total, matchedAny, cursor, lastIndex, unitArg, isUnit, abandoned>>

\* if (/^[+-]?\d+(?:\.\d+)?$/.test(trimmed)) ...
UnitlessBranch ==
    /\ pc = "dispatch"
    /\ trimmed # <<>>
    /\ ~includes(trimmed, ":")
    /\ IsSignedDecimal(trimmed)
    /\ LET n == Number(trimmed)
       IN  outcome' = IF ~isFinite(n) THEN Throw(InvalidUnitlessMessage(raw))
                      ELSE Return(round(n))
    /\ pc' = "done"
    /\ UNCHANGED <<raw, trimmed, total, matchedAny, cursor, lastIndex, unitArg, isUnit, abandoned>>

\* StartScan without the test for ':': the token scan also runs on clock inputs
StartScanDespiteColon ==
    /\ pc = "dispatch"
    /\ trimmed # <<>>
    /\ ~IsSignedDecimal(trimmed)
    /\ total' = Lit(0)
    /\ matchedAny' = FALSE
    /\ cursor' = lastIndex
    /\ pc' = "scan"
    /\ UNCHANGED <<raw, trimmed, lastIndex, outcome, unitArg, isUnit, abandoned>>

\* let total = 0; let matchedAny = false; trimmed.matchAll(TOKEN_REG_EX) makes
\* a matcher that starts at TOKEN_REG_EX.lastIndex
StartScan ==
    /\ pc = "dispatch"
    /\ trimmed # <<>>
    /\ ~includes(trimmed, ":")
    /\ ~IsSignedDecimal(trimmed)
    /\ total' = Lit(0)
    /\ matchedAny' = FALSE
    /\ cursor' = lastIndex
    /\ pc' = "scan"
    /\ UNCHANGED <<raw, trimmed, lastIndex, outcome, unitArg, isUnit, abandoned>>

\* Accumulate with = in place of +=: the total is the last term
AccumulateAssigned(sum, value, msPer) == TimesMsPer(value, msPer)

\* Accumulate with each term rounded before it is added
AccumulateRounded(sum, value, msPer) == Plus(sum, round(TimesMsPer(value, msPer)))

\* total += value * msPer
Accumulate(sum, value, msPer) == Plus(sum, TimesMsPer(value, msPer))

\* ScanToken with TOKEN_REG_EX.exec in place of matchAll: the loop advances the
\* shared pattern, and a throw leaves it where the loop stopped
ScanTokenSharedPattern ==
    /\ pc = "scan"
    /\ LET match == Exec(trimmed, cursor)
           value == Number(Group1(trimmed, match))
           unit  == toLowerCase(Group2(trimmed, match))
           msPer == Lookup(unit)
       IN  /\ match.ok
           /\ matchedAny' = TRUE
           /\ cursor' = match.end
           /\ lastIndex' = match.end
           /\ IF ~isFinite(value)
              THEN /\ outcome' = Throw(InvalidNumberMessage(Group1(trimmed, match), raw))
                   /\ pc' = "done"
                   /\ UNCHANGED total
              ELSE IF msPer.k = "undefined"
              THEN /\ outcome' = Throw(UnknownUnitMessage(Group2(trimmed, match), raw))
                   /\ pc' = "done"
                   /\ UNCHANGED total
              ELSE /\ total' = Accumulate(total, value, msPer)
                   /\ UNCHANGED <<pc, outcome>>
    /\ UNCHANGED <<raw, trimmed, unitArg, isUnit, abandoned>>

\* one iteration of the for loop over the matches
ScanToken ==
    /\ pc = "scan"
    /\ LET match == Exec(trimmed, cursor)
           value == Number(Group1(trimmed, match))
           unit  == toLowerCase(Group2(trimmed, match))
           msPer == Lookup(unit)
       IN  /\ match.ok
           /\ matchedAny' = TRUE
           /\ cursor' = match.end
           /\ IF ~isFinite(value)
              THEN /\ outcome' = Throw(InvalidNumberMessage(Group1(trimmed, match), raw))
                   /\ pc' = "done"
                   /\ UNCHANGED total
              ELSE IF msPer.k = "undefined"
              THEN /\ outcome' = Throw(UnknownUnitMessage(Group2(trimmed, match), raw))
                   /\ pc' = "done"
                   /\ UNCHANGED total
              ELSE /\ total' = Accumulate(total, value, msPer)
                   /\ UNCHANGED <<pc, outcome>>
    /\ UNCHANGED <<raw, trimmed, lastIndex, unitArg, isUnit, abandoned>>

\* CheckRemainder without the test of the remainder
CheckRemainderNoJunkTest ==
    /\ pc = "scan"
    /\ ~Exec(trimmed, cursor).ok
    /\ outcome' = IF ~matchedAny THEN Throw(CouldNotParseMessage(raw)) ELSE Return(round(total))
    /\ lastIndex' = 0
    /\ pc' = "done"
    /\ UNCHANGED <<raw, trimmed, total, matchedAny, cursor, unitArg, isUnit, abandoned>>

\* the loop is over: the remainder check and the final rounding
CheckRemainder ==
    /\ pc = "scan"
    /\ ~Exec(trimmed, cursor).ok
    /\ LET remainder == trim(ReplaceFrom(trimmed, 0))
       IN  outcome' = IF ~matchedAny \/ Len(remainder) > 0
                      THEN Throw(CouldNotParseMessage(raw))
                      ELSE Return(round(total))
    /\ lastIndex' = 0
    /\ pc' = "done"
    /\ UNCHANGED <<raw, trimmed, total, matchedAny, cursor, unitArg, isUnit, abandoned>>

\* the call is over: its locals are discarded, the next call can start
Finish ==
    /\ pc = "done"
    /\ pc' = "idle"
    /\ raw' = <<>>
    /\ trimmed' = <<>>
    /\ total' = Lit(0)
    /\ matchedAny' = FALSE
    /\ cursor' = 0
    /\ outcome' = Pending
    /\ abandoned' = (abandoned \/ (matchedAny /\ outcome.kind = "throw"
                                     /\ SubSeq(outcome.message, 1, Len(Prefix \o UnknownUnitText))
                                            = Prefix \o UnknownUnitText))
    /\ UNCHANGED <<lastIndex, unitArg, isUnit>>

\* isDurationUnit(unit) is called and returns
IsDurationUnitCall ==
    /\ pc = "idle"
    /\ \E unit \in UnitArguments :
           /\ unitArg' = unit
           /\ isUnit' = isDurationUnit(unit)
    /\ pc' = "answered"
    /\ UNCHANGED <<raw, trimmed, total, matchedAny, cursor, lastIndex, outcome, abandoned>>

\* the caller has the answer: the next call can start
IsDurationUnitDone ==
    /\ pc = "answered"
    /\ pc' = "idle"
    /\ unitArg' = <<>>
    /\ isUnit' = FALSE
    /\ UNCHANGED <<raw, trimmed, total, matchedAny, cursor, lastIndex, outcome, abandoned>>

Next ==
    \/ Call
    \/ ReturnEmpty
    \/ ColonBranch
    \/ UnitlessBranch
    \/ StartScan
    \/ ScanToken
    \/ CheckRemainder
    \/ Finish
    \/ IsDurationUnitCall
    \/ IsDurationUnitDone

Spec == Init /\ [][Next]_vars

(***************************************************************************)
(* Vocabulary of the properties                                            *)
(***************************************************************************)
Done == pc = "done"

Returned == pc = "done" /\ outcome.kind = "return"

Threw == pc = "done" /\ outcome.kind = "throw"

\* the input without its leading and trailing whitespace, computed from raw
Core(s) ==
    LET inner == { i \in 1..Len(s) : s[i] \notin Spaces }
    IN  IF inner = {} THEN <<>>
        ELSE SubSeq(s, CHOOSE i \in inner : \A j \in inner : i <= j,
                       CHOOSE i \in inner : \A j \in inner : i >= j)

HasColon(s) == \E i \in 1..Len(s) : s[i] = ":"

IsPrefixOf(p, s) == Len(p) <= Len(s) /\ SubSeq(s, 1, Len(p)) = p

IsSuffixOf(p, s) == Len(p) <= Len(s) /\ SubSeq(s, Len(s) - Len(p) + 1, Len(s)) = p

(***************************************************************************)
(* C9: for the empty string and for every string made only of whitespace,  *)
(* parseDurationMs returns 0 and never fails.                              *)
(***************************************************************************)
C9_BlankReturnsZero ==
    (Done /\ \A i \in 1..Len(raw) : raw[i] \in Spaces)
        => (outcome.kind = "return" /\ isInteger(outcome.value) /\ IsZero(outcome.value))

C9_Witness ==
    /\ Returned
    /\ Len(raw) >= 2
    /\ \A i \in 1..Len(raw) : raw[i] \in Spaces
    /\ \E i \in 1..Len(raw) : raw[i] # " "

(***************************************************************************)
(* The clock notation, read off the input text                             *)
(***************************************************************************)
Half == Finite(FALSE, <<5>>, 1)

\* n is the integer nearest to x, the upper one when two are equally near
RoundsTo(x, n) ==
    IF x.k = "fin"
    THEN isInteger(n) /\ ~Less(x, Plus(n, Negate(Half))) /\ Less(x, Plus(n, Half))
    ELSE n = x

Colons(s) == { i \in 1..Len(s) : s[i] = ":" }

SegmentCount(s) == Cardinality(Colons(s)) + 1

\* the k-th of the texts that the colons of s separate
Segment(s, k) ==
    LET before == { i \in Colons(s) : Cardinality({ j \in Colons(s) : j <= i }) = k - 1 }
        after  == { i \in Colons(s) : Cardinality({ j \in Colons(s) : j <= i }) = k }
        lo == IF before = {} THEN 1 ELSE (CHOOSE i \in before : TRUE) + 1
        hi == IF after = {} THEN Len(s) ELSE (CHOOSE i \in after : TRUE) - 1
    IN  Slice(s, lo, hi)

AllDigits(t) == Len(t) >= 1 /\ \A i \in 1..Len(t) : t[i] \in {"0","1","2","3","4","5","6","7","8","9"}

\* t without a leading sign
Unsigned(t) == IF Len(t) >= 1 /\ t[1] \in {"+", "-"} THEN SubSeq(t, 2, Len(t)) ELSE t

\* a digit string with a value below 60
Below60(t) ==
    /\ AllDigits(t)
    /\ \A i \in 1..(Len(t) - 2) : t[i] = "0"
    /\ Len(t) >= 2 => t[Len(t) - 1] \in {"0","1","2","3","4","5"}

\* an optional sign and one or more digits
HourText(t) == AllDigits(Unsigned(t))

\* one or more digits with a value in [0, 59]
MinuteText(t) == Below60(t)

\* one or more digits, optionally '.' and one or more digits, with a value in [0, 60)
SecondText(t) ==
    LET dots == { i \in 1..Len(t) : t[i] = "." }
    IN  \/ Below60(t)
        \/ \E d \in dots : Below60(SubSeq(t, 1, d - 1)) /\ AllDigits(SubSeq(t, d + 1, Len(t)))

\* the acceptance condition of C3 as the claim states it, on the trimmed input s
ClockAcceptedAsClaimed(s) ==
    /\ SegmentCount(s) \in {2, 3}
    /\ HourText(Segment(s, 1))
    /\ MinuteText(Segment(s, 2))
    /\ SegmentCount(s) = 3 => SecondText(Segment(s, 3))

\* the same with whitespace allowed around each segment and the hours within
\* the binary64 range
ClockAccepted(s) ==
    /\ SegmentCount(s) \in {2, 3}
    /\ HourText(Core(Segment(s, 1)))
    /\ isFinite(Number(Core(Segment(s, 1))))
    /\ MinuteText(Core(Segment(s, 2)))
    /\ SegmentCount(s) = 3 => SecondText(Core(Segment(s, 3)))

\* sign * (hours * 3600000 + minutes * 60000 + seconds * 1000) of an accepted clock input
ClockValue(s) ==
    LET sign == IF Core(Segment(s, 1))[1] = "-" THEN -1 ELSE 1
        h == Number(Unsigned(Core(Segment(s, 1))))
        m == Number(Core(Segment(s, 2)))
        sec == IF SegmentCount(s) = 3 THEN Number(Core(Segment(s, 3))) ELSE Lit(0)
    IN  Plus(Plus(Times(h, sign * 3600000), Times(m, sign * 60000)), Times(sec, sign * 1000))

(***************************************************************************)
(* C2: an input whose trimmed form holds a ':' is decided by the colon     *)
(* parser alone: the call never enters the token scan and ends either with *)
(* the colon parser's value or with the error                              *)
(* `parseDurationMs: invalid ":" duration "<original>"`.                   *)
(***************************************************************************)
C2_ColonDecides ==
    HasColon(raw) =>
        /\ pc # "scan"
        /\ Threw => outcome.message = InvalidColonMessage(raw)
        /\ Returned => ClockAccepted(Core(raw)) /\ RoundsTo(ClockValue(Core(raw)), outcome.value)

\* a clock input that also holds a token the scanner would match, e.g. "1:30h"
C2_Witness ==
    /\ Threw
    /\ HasColon(raw)
    /\ Exec(trimmed, 0).ok
    /\ outcome.message = InvalidColonMessage(raw)

(***************************************************************************)
(* C3 (as amended): a colon input is accepted if and only if, after the    *)
(* split on ':' and the removal of the whitespace around each segment,     *)
(* there are 2 or 3 segments, the hour segment is an optional sign and     *)
(* digits whose value is finite in binary64, the minute segment is digits  *)
(* with a value in [0, 59] and the seconds segment, when present, is       *)
(* digits with an optional fraction and a value in [0, 60); every other    *)
(* colon input fails with the invalid ":" duration error.                  *)
(***************************************************************************)
C3_ClockAcceptance ==
    (Done /\ HasColon(raw)) =>
        IF ClockAccepted(Core(raw)) THEN outcome.kind = "return"
        ELSE outcome = Throw(InvalidColonMessage(raw))

\* C3 as stated: segments are taken as they are, hours of any size
C3_AsClaimed ==
    (Done /\ HasColon(raw)) =>
        IF ClockAcceptedAsClaimed(Core(raw)) THEN outcome.kind = "return"
        ELSE outcome = Throw(InvalidColonMessage(raw))

\* an accepted H:M:S at the upper end of both ranges, with a fraction
C3_Witness ==
    /\ Returned
    /\ HasColon(raw)
    /\ SegmentCount(raw) = 3
    /\ Number(Core(Segment(raw, 2))) = Lit(59)
    /\ ~Less(Number(Core(Segment(raw, 3))), Lit(59))
    /\ \E i \in 1..Len(Segment(raw, 3)) : Segment(raw, 3)[i] = "."

(***************************************************************************)
(* C4: for every accepted colon input the result is                        *)
(* round(sign * (hours * 3600000 + minutes * 60000 + seconds * 1000)),     *)
(* where sign is -1 exactly when the hour segment starts with '-'; the     *)
(* sign negates the minutes and seconds too, and rounding happens once.    *)
(***************************************************************************)
C4_ClockValue ==
    (Returned /\ HasColon(raw)) => RoundsTo(ClockValue(Core(raw)), outcome.value)

\* a negative sign on zero hours that negates the minutes, e.g. "-0:59"
C4_Witness ==
    /\ Returned
    /\ HasColon(raw)
    /\ Core(Segment(Core(raw), 1))[1] = "-"
    /\ IsZero(Number(Core(Segment(Core(raw), 1))))
    /\ Less(outcome.value, Lit(0))

(***************************************************************************)
(* The token notation, read off the input text                             *)
(***************************************************************************)
MillisecondSpellings ==
    { <<"m","s">>,
      <<"m","s","e","c">>,
      <<"m","s","e","c","s">>,
      <<"m","i","l","l","i","s","e","c","o","n","d">>,
      <<"m","i","l","l","i","s","e","c","o","n","d","s">> }

SecondSpellings ==
    { <<"s">>,
      <<"s","e","c">>,
      <<"s","e","c","s">>,
      <<"s","e","c","o","n","d">>,
      <<"s","e","c","o","n","d","s">> }

MinuteSpellings ==
    { <<"m">>,
      <<"m","i","n">>,
      <<"m","i","n","s">>,
      <<"m","i","n","u","t","e">>,
      <<"m","i","n","u","t","e","s">> }

HourSpellings ==
    { <<"h">>,
      <<"h","r">>,
      <<"h","r","s">>,
      <<"h","o","u","r">>,
      <<"h","o","u","r","s">> }

DaySpellings ==
    { <<"d">>,
      <<"d","a","y">>,
      <<"d","a","y","s">> }

CanonicalSpellings ==
    MillisecondSpellings \cup SecondSpellings \cup MinuteSpellings \cup HourSpellings \cup DaySpellings

\* the multiplier of a canonical spelling
Multiplier(u) ==
    IF u \in MillisecondSpellings THEN 1
    ELSE IF u \in SecondSpellings THEN 1000
    ELSE IF u \in MinuteSpellings THEN 60000
    ELSE IF u \in HourSpellings THEN 3600000
    ELSE 86400000

\* the end of the longest run of characters of the class cs that starts at i
RunEnd(s, i, cs) ==
    CHOOSE j \in i..(Len(s) + 1) :
        /\ \A k \in i..(j - 1) : s[k] \in cs
        /\ j <= Len(s) => s[j] \notin cs

Malformed == <<[num |-> <<>>, unit |-> <<>>]>>

RECURSIVE TokensFrom(_, _)
\* the tokens of s from position i on, when the rest of s is nothing but
\* whitespace and tokens (sign, digits, fraction, whitespace, letters); Malformed otherwise
TokensFrom(s, i) ==
    LET a == RunEnd(s, i, Spaces)
        b == IF a <= Len(s) /\ s[a] \in Signs THEN a + 1 ELSE a
        c == RunEnd(s, b, Digits)
        d == IF c <= Len(s) /\ s[c] = "." /\ RunEnd(s, c + 1, Digits) > c + 1
             THEN RunEnd(s, c + 1, Digits) ELSE c
        e == RunEnd(s, d, Spaces)
        f == RunEnd(s, e, Letters)
        rest == TokensFrom(s, f)
    IN  IF a > Len(s) THEN <<>>
        ELSE IF c = b \/ f = e THEN Malformed
        ELSE IF rest = Malformed THEN Malformed
        ELSE <<[num |-> SubSeq(s, a, d - 1), unit |-> SubSeq(s, e, f - 1)]>> \o rest

\* s consists solely of well-formed tokens with known units
WellFormedTokens(s) ==
    LET ts == TokensFrom(s, 1)
    IN  /\ ts # <<>>
        /\ ts # Malformed
        /\ \A i \in 1..Len(ts) : toLowerCase(ts[i].unit) \in CanonicalSpellings

RECURSIVE SumOf(_)
\* the sum of value * multiplier over the tokens ts
SumOf(ts) ==
    IF ts = <<>> THEN Lit(0)
    ELSE Plus(SumOf(SubSeq(ts, 1, Len(ts) - 1)),
              Times(Number(ts[Len(ts)].num), Multiplier(toLowerCase(ts[Len(ts)].unit))))

\* optional sign, digits, optional '.' and digits
BareNumber(s) ==
    LET t == Unsigned(s)
    IN  \/ AllDigits(t)
        \/ \E d \in 1..Len(t) :
               t[d] = "." /\ AllDigits(SubSeq(t, 1, d - 1)) /\ AllDigits(SubSeq(t, d + 1, Len(t)))

RECURSIVE MatchesFrom(_, _)
\* the matches of the token pattern in s after index at, leftmost first
MatchesFrom(s, at) ==
    LET m == Exec(s, at) IN IF m.ok THEN <<m>> \o MatchesFrom(s, m.end) ELSE <<>>

\* a non-whitespace character of s outside every match, or no match at all
HasJunk(s) ==
    LET ms == MatchesFrom(s, 0)
    IN  \/ ms = <<>>
        \/ \E i \in 1..Len(s) :
               s[i] \notin Spaces /\ \A k \in 1..Len(ms) : i < ms[k].from \/ i > ms[k].end

\* an input that the token scanner handles: not blank, no ':', not a bare number
TokenInput(s) == Core(s) # <<>> /\ ~HasColon(s) /\ ~BareNumber(Core(s))

(***************************************************************************)
(* C1 (as amended): for every input of well-formed tokens with known units *)
(* whose numbers are all finite in binary64, parseDurationMs returns       *)
(* round(sum of value_i * multiplier(lowercase(unit_i))): each sign        *)
(* applies to its own token and the total is rounded once, not per token.  *)
(***************************************************************************)
C1_TokenSum ==
    (Done /\ TokenInput(raw) /\ WellFormedTokens(Core(raw))
          /\ \A i \in 1..Len(TokensFrom(Core(raw), 1)) :
                 isFinite(Number(TokensFrom(Core(raw), 1)[i].num)))
        => (outcome.kind = "return" /\ RoundsTo(SumOf(TokensFrom(Core(raw), 1)), outcome.value))

\* C1 as stated: for every input of well-formed tokens with known units
C1_AsClaimed ==
    (Done /\ TokenInput(raw) /\ WellFormedTokens(Core(raw)))
        => (outcome.kind = "return" /\ RoundsTo(SumOf(TokensFrom(Core(raw), 1)), outcome.value))

\* two tokens that each round to 0 and sum to a total that rounds to 1
C1_Witness ==
    /\ Returned
    /\ TokenInput(raw)
    /\ WellFormedTokens(Core(raw))
    /\ Len(TokensFrom(Core(raw), 1)) = 2
    /\ \A i \in 1..2 : IsZero(round(SumOf(<<TokensFrom(Core(raw), 1)[i]>>)))
    /\ outcome.value = Lit(1)

(***************************************************************************)
(* C5: for every colon-free input that is not a bare number, if the        *)
(* scanner matches a token whose lowercased unit is not a canonical        *)
(* spelling, parseDurationMs fails with                                    *)
(* `parseDurationMs: unknown unit "<unit as written>" in "<original>"`     *)
(* for the leftmost such token, whatever word the unit spells.             *)
(***************************************************************************)
C5_UnknownUnitReported ==
    LET ms == MatchesFrom(Core(raw), 0)
        unknown == { k \in 1..Len(ms) : toLowerCase(Group2(Core(raw), ms[k])) \notin CanonicalSpellings }
        first == CHOOSE k \in unknown : \A j \in unknown : k <= j
    IN  (Done /\ TokenInput(raw) /\ unknown # {})
            => outcome = Throw(UnknownUnitMessage(Group2(Core(raw), ms[first]), raw))

(***************************************************************************)
(* C6 (as amended): for every colon-free input that is not a bare number   *)
(* and in which every token the scanner matches has a finite number and a  *)
(* canonical unit: if there is no token at all, or a non-whitespace        *)
(* character lies outside the matched tokens, parseDurationMs fails with   *)
(* `parseDurationMs: could not fully parse "<original>"`.                  *)
(***************************************************************************)
C6_JunkRejected ==
    LET ms == MatchesFrom(Core(raw), 0)
    IN  (Done /\ TokenInput(raw) /\ HasJunk(Core(raw))
              /\ \A k \in 1..Len(ms) :
                     /\ toLowerCase(Group2(Core(raw), ms[k])) \in CanonicalSpellings
                     /\ isFinite(Number(Group1(Core(raw), ms[k]))))
            => outcome = Throw(CouldNotParseMessage(raw))

\* C6 as stated: whatever tokens the input also contains
C6_AsClaimed ==
    (Done /\ TokenInput(raw) /\ HasJunk(Core(raw))) => outcome = Throw(CouldNotParseMessage(raw))

\* junk next to a valid token, e.g. "1h,"
C6_Witness ==
    /\ Threw
    /\ TokenInput(raw)
    /\ HasJunk(Core(raw))
    /\ MatchesFrom(Core(raw), 0) # <<>>
    /\ outcome.message = CouldNotParseMessage(raw)

(***************************************************************************)
(* C7 (as amended): for every input whose trimmed form has no ':' and is   *)
(* an optional sign, digits and an optional fraction, parseDurationMs      *)
(* returns round(value) when the value is finite in binary64, and fails    *)
(* with `parseDurationMs: invalid number "<original>"` when it is not.     *)
(***************************************************************************)
C7_BareNumberRounded ==
    (Done /\ ~HasColon(raw) /\ BareNumber(Core(raw)))
        => IF isFinite(Number(Core(raw)))
           THEN outcome.kind = "return" /\ RoundsTo(Number(Core(raw)), outcome.value)
           ELSE outcome = Throw(InvalidUnitlessMessage(raw))

\* C7 as stated: every such string returns round(value), none produces an error
C7_AsClaimed ==
    (Done /\ ~HasColon(raw) /\ BareNumber(Core(raw)))
        => (outcome.kind = "return" /\ RoundsTo(Number(Core(raw)), outcome.value))

\* a negative bare number with a fraction, e.g. "-1500.5"
C7_Witness ==
    /\ Returned
    /\ BareNumber(Core(raw))
    /\ Core(raw)[1] = "-"
    /\ ~isInteger(Number(Core(raw)))
    /\ ~IsZero(outcome.value)

\* msg is Prefix, text, some part of the input, `" in "`, the input and a quote
NamesPartOfInput(msg, text, r) ==
    LET head == Prefix \o text
        tail == InText \o r \o Quote
    IN  /\ IsPrefixOf(head, msg)
        /\ IsSuffixOf(tail, msg)
        /\ Len(msg) > Len(head) + Len(tail)
        /\ LET part == SubSeq(msg, Len(head) + 1, Len(msg) - Len(tail))
           IN  \E i \in 1..Len(r) : IsPrefixOf(part, SubSeq(r, i, Len(r)))

(***************************************************************************)
(* C8: every call ends either with the return of an integer number of      *)
(* milliseconds or with an error whose message is one of                   *)
(* invalid ":" duration "<original>", unknown unit "<unit>" in             *)
(* "<original>", could not fully parse "<original>" and invalid number     *)
(* "<token>" in "<original>", each after the prefix `parseDurationMs: `.   *)
(***************************************************************************)
C8_IntegerOrCanonicalError ==
    Done =>
        \/ outcome.kind = "return" /\ isInteger(outcome.value)
        \/ /\ outcome.kind = "throw"
           /\ \/ outcome.message = InvalidColonMessage(raw)
              \/ outcome.message = CouldNotParseMessage(raw)
              \/ NamesPartOfInput(outcome.message, UnknownUnitText, raw)
              \/ NamesPartOfInput(outcome.message, InvalidNumberText, raw)

(***************************************************************************)
(* C10: every failure of parseDurationMs carries a message that starts     *)
(* with `parseDurationMs: ` and embeds, in quotes at its end, the original *)
(* input with its leading and trailing whitespace.                         *)
(***************************************************************************)
C10_MessageEmbedsOriginal ==
    Threw => /\ IsPrefixOf(Prefix, outcome.message)
             /\ IsSuffixOf(Quote \o raw \o Quote, outcome.message)

\* a failure on an input with whitespace around it
C10_Witness ==
    /\ Threw
    /\ raw # Core(raw)
    /\ Core(raw) # <<>>
    /\ IsSuffixOf(Quote \o raw \o Quote, outcome.message)

(***************************************************************************)
(* C11: on each of the three branches (bare number, token list, clock      *)
(* notation) the returned value is floor(x + 1/2) of the branch's finite   *)
(* unrounded total x, for negative x as for positive x: 1500.5 gives 1501, *)
(* -1500.5 gives -1500, 0.5 gives 1, and every x in [-0.5, 0) gives a       *)
(* value equal to 0.                                                       *)
(***************************************************************************)
C11_RoundingRule ==
    (Returned /\ Core(raw) # <<>>) =>
        LET x == IF HasColon(raw) THEN ClockValue(Core(raw))
                 ELSE IF BareNumber(Core(raw)) THEN Number(Core(raw))
                 ELSE total
        IN  /\ isFinite(x) => RoundsTo(x, outcome.value)
            /\ x = Finite(FALSE, <<5, 0, 0, 5, 1>>, 1) => outcome.value = Lit(1501)
            /\ x = Finite(TRUE, <<5, 0, 0, 5, 1>>, 1) => outcome.value = Lit(-1500)
            /\ x = Half => outcome.value = Lit(1)
            /\ (isFinite(x) /\ x.neg /\ ~Less(x, Negate(Half))) => IsZero(outcome.value)

\* a clock input whose total is a negative tie, e.g. "-0:00:01.5005"
C11_Witness ==
    /\ Returned
    /\ HasColon(raw)
    /\ ClockValue(Core(raw)).neg
    /\ ~isInteger(ClockValue(Core(raw)))
    /\ isInteger(Plus(ClockValue(Core(raw)), Half))
    /\ ~IsZero(outcome.value)

\* the listed spellings, in any of the letter cases of UnitWords,
\* each with the spelling it is a variant of
CaseVariants ==
    UNION { { [word |-> u, of |-> u], [word |-> Capitals(u), of |-> u],
              [word |-> Capitalised(u), of |-> u] } : u \in CanonicalSpellings }

\* the predicate answers as the list says, n words in all get the answer true,
\* and the scanner takes every variant
UnitPredicateAndScanner(n) ==
    /\ pc = "answered" =>
           /\ isUnit \in BOOLEAN
           /\ isUnit = (unitArg \in CanonicalSpellings)
           /\ Cardinality({ unit \in UnitArguments : isDurationUnit(unit) }) = n
           /\ Cardinality(DOMAIN UNIT_MS) = n
    /\ \A v \in CaseVariants :
           (Done /\ raw = <<"7">> \o v.word) => outcome = Return(Lit(7 * Multiplier(v.of)))

(***************************************************************************)
(* C12 (as amended): isDurationUnit(value) returns true if and only if     *)
(* value is exactly one of the 23 lowercase spellings of the Unit Table    *)
(* (ms, msec, msecs, millisecond, milliseconds, s, sec, secs, second,      *)
(* seconds, m, min, mins, minute, minutes, h, hr, hrs, hour, hours, d,     *)
(* day, days), without case folding or trimming; it returns false for      *)
(* every other string and never fails, while the scanner of                *)
(* parseDurationMs accepts the same spellings in any letter case.          *)
(***************************************************************************)
C12_UnitPredicate == UnitPredicateAndScanner(23)

\* C12 as stated: the Unit Table has 24 spellings
C12_AsClaimed == UnitPredicateAndScanner(24)

\* isDurationUnit has said no to a word in capitals that the scanner accepts
C12_Witness ==
    /\ pc = "answered"
    /\ ~isUnit
    /\ unitArg \notin CanonicalSpellings
    /\ \E v \in CaseVariants : v.word = unitArg /\ v.word # v.of

(***************************************************************************)
(* One call of parseDurationMs on its own: the outcome as a function of    *)
(* the input, with the token pattern as it is when the module is loaded    *)
(***************************************************************************)
RECURSIVE ScanAlone(_, _, _, _, _)
\* the for loop from index at on, then the remainder check and the rounding
ScanAlone(r, t, at, sum, any) ==
    LET match == Exec(t, at)
        value == Number(Group1(t, match))
        msPer == Lookup(toLowerCase(Group2(t, match)))
    IN  IF ~match.ok
        THEN (IF ~any \/ Len(trim(ReplaceFrom(t, 0))) > 0
              THEN Throw(CouldNotParseMessage(r))
              ELSE Return(round(sum)))
        ELSE IF ~isFinite(value) THEN Throw(InvalidNumberMessage(Group1(t, match), r))
        ELSE IF msPer.k = "undefined" THEN Throw(UnknownUnitMessage(Group2(t, match), r))
        ELSE ScanAlone(r, t, match.end, Accumulate(sum, value, msPer), TRUE)

CallAlone(input) ==
    LET t == trim(input)
    IN  IF t = <<>> THEN Return(Lit(0))
        ELSE IF includes(t, ":")
        THEN (IF parseColonTimeToMs(t) = Null THEN Throw(InvalidColonMessage(input))
              ELSE Return(parseColonTimeToMs(t)))
        ELSE IF IsSignedDecimal(t)
        THEN (IF ~isFinite(Number(t)) THEN Throw(InvalidUnitlessMessage(input))
              ELSE Return(round(Number(t))))
        ELSE ScanAlone(input, t, 0, Lit(0), FALSE)

(***************************************************************************)
(* C13: in any sequence of calls, also after calls that threw "unknown     *)
(* unit" from inside the scan, each call ends as the same call on its own  *)
(* would, and the shared token pattern is in the state it had when the     *)
(* module was loaded.                                                      *)
(***************************************************************************)
C13_CallsIndependent ==
    /\ lastIndex = 0
    /\ pc = "scan" => cursor <= Len(trimmed)
    /\ Done => outcome = CallAlone(raw)

\* a token list was summed after an earlier call had thrown inside its loop
C13_Witness ==
    /\ abandoned
    /\ Returned
    /\ matchedAny
    /\ cursor > 0
    /\ Len(MatchesFrom(trimmed, 0)) >= 2

(***************************************************************************)
(* The tokens of an input in another order                                 *)
(***************************************************************************)
\* the orders of k things
Orders(k) == { p \in [1..k -> 1..k] : \A i, j \in 1..k : p[i] = p[j] => i = j }

\* the tokens ts in the order p, and the same written as an input
Reordered(ts, p) == [i \in 1..Len(ts) |-> ts[p[i]]]

Written(ts) ==
    Concat([i \in 1..(2 * Len(ts) - 1) |->
                IF i % 2 = 1 THEN ts[(i + 1) \div 2].num \o ts[(i + 1) \div 2].unit ELSE <<" ">>])

\* adding up the tokens ts from left to right stays within the binary64 range
SumsStayFinite(ts) == \A n \in 1..Len(ts) : isFinite(SumOf(SubSeq(ts, 1, n)))

\* the call ended as the call on each reordering of the tokens ts ends
SameInEveryOrder(ts) ==
    \A p \in Orders(Len(ts)) : CallAlone(Written(Reordered(ts, p))) = outcome

IntegerDigits(t) ==
    LET u == Unsigned(t)
        dots == { i \in 1..Len(u) : u[i] = "." }
        stop == IF dots = {} THEN Len(u) + 1 ELSE CHOOSE i \in dots : TRUE
        lead == { i \in 1..(stop - 1) : u[i] # "0" }
    IN  IF lead = {} THEN 0 ELSE stop - (CHOOSE i \in lead : \A j \in lead : i <= j)

\* the number text t converts to Infinity or -Infinity
BeyondRange(t) == Number(t).k = "inf"

\* the call failed with an "invalid number" message
InvalidNumberThrown == Threw /\ IsPrefixOf(Prefix \o InvalidNumberText, outcome.message)

(***************************************************************************)
(* C15 (as amended): parseDurationMs fails with an "invalid number"        *)
(* message only for a number beyond the binary64 range, which takes at     *)
(* least 309 digits before the decimal point: a bare number of that size   *)
(* fails with `invalid number "<original>"`, a token list whose first      *)
(* token has such a number fails with `invalid number "<number>" in        *)
(* "<original>"`, and no number within the range raises the failure.       *)
(***************************************************************************)
C15_InvalidNumberOnlyBeyondRange ==
    LET core == Core(raw)
        ms == MatchesFrom(core, 0)
    IN  /\ InvalidNumberThrown =>
               /\ ~HasColon(raw)
               /\ \/ /\ BareNumber(core)
                     /\ BeyondRange(core) /\ IntegerDigits(core) >= 309
                     /\ outcome.message = InvalidUnitlessMessage(raw)
                  \/ /\ ~BareNumber(core)
                     /\ \E k \in 1..Len(ms) :
                            /\ BeyondRange(Group1(core, ms[k]))
                            /\ IntegerDigits(Group1(core, ms[k])) >= 309
                            /\ outcome.message = InvalidNumberMessage(Group1(core, ms[k]), raw)
        /\ (Done /\ ~HasColon(raw) /\ BareNumber(core) /\ BeyondRange(core))
               => outcome = Throw(InvalidUnitlessMessage(raw))
        /\ (Done /\ TokenInput(raw) /\ ms # <<>> /\ BeyondRange(Group1(core, ms[1])))
               => outcome = Throw(InvalidNumberMessage(Group1(core, ms[1]), raw))

\* C15 as stated: no call fails with an "invalid number" message
C15_AsClaimed == ~InvalidNumberThrown

\* the second token of a list has a number beyond the range
C15_Witness ==
    LET core == Core(raw)
        ms == MatchesFrom(core, 0)
    IN  /\ InvalidNumberThrown
        /\ Len(ms) >= 2
        /\ ~BeyondRange(Group1(core, ms[1]))
        /\ outcome.message = InvalidNumberMessage(Group1(core, ms[2]), raw)

(***************************************************************************)
(* A clock time written as tokens                                          *)
(***************************************************************************)
\* the clock input s is H:M or H:M:S with H, M, S bare digit strings (S with
\* an optional fraction), H signed if signed is TRUE, M and S below 60
PlainClock(s, signed) ==
    /\ SegmentCount(s) \in {2, 3}
    /\ IF signed THEN Len(Segment(s, 1)) >= 2 /\ Segment(s, 1)[1] = "-" /\ AllDigits(Tail(Segment(s, 1)))
       ELSE AllDigits(Segment(s, 1))
    /\ MinuteText(Segment(s, 2))
    /\ SegmentCount(s) = 3 => SecondText(Segment(s, 3))

\* "Hh Mm Ss" or "Hh Mm" for the clock input s, a sign of H kept with H
AsTokens(s) ==
    Segment(s, 1) \o <<"h", " ">> \o Segment(s, 2) \o <<"m">>
        \o (IF SegmentCount(s) = 3 THEN <<" ">> \o Segment(s, 3) \o <<"s">> ELSE <<>>)

\* hours, minutes and seconds of s in milliseconds, each with the sign given
ClockTerms(s, hSign, mSign, sSign) ==
    Plus(Plus(Times(Number(Unsigned(Segment(s, 1))), hSign * 3600000),
              Times(Number(Segment(s, 2)), mSign * 60000)),
         IF SegmentCount(s) = 3 THEN Times(Number(Segment(s, 3)), sSign * 1000) ELSE Lit(0))

\* the clock form of an unsigned time ends as its token form does; with a '-'
\* on the hours the clock form is minus the whole and the token form is minus
\* the hours alone
ClockAgreesWithTokens(s) ==
    /\ PlainClock(s, FALSE) => outcome = CallAlone(AsTokens(s))
    /\ PlainClock(s, TRUE) =>
           /\ outcome.kind = "return"
           /\ RoundsTo(ClockTerms(s, -1, -1, -1), outcome.value)
           /\ CallAlone(AsTokens(s)).kind = "return"
           /\ RoundsTo(ClockTerms(s, -1, 1, 1), CallAlone(AsTokens(s)).value)

(***************************************************************************)
(* C16 (as amended): for digit strings H, M, S with H within the binary64  *)
(* range, M in [0, 59] and S (possibly fractional) in [0, 60),             *)
(* parseDurationMs("H:M:S") equals parseDurationMs("Hh Mm Ss") and         *)
(* parseDurationMs("H:M") equals parseDurationMs("Hh Mm"); with a leading  *)
(* '-' on the hours the clock form negates the whole value and the token   *)
(* form negates the hour token alone.                                      *)
(***************************************************************************)
C16_ClockAgreesWithTokens ==
    (Done /\ raw = Core(raw) /\ (PlainClock(raw, FALSE) \/ PlainClock(raw, TRUE))
          /\ ~BeyondRange(Segment(raw, 1)))
        => ClockAgreesWithTokens(raw)

\* C16 as stated: for all digit strings H
C16_AsClaimed ==
    (Done /\ raw = Core(raw) /\ (PlainClock(raw, FALSE) \/ PlainClock(raw, TRUE)))
        => ClockAgreesWithTokens(raw)

\* a signed clock time with a fraction of a millisecond, on which the two forms
\* differ: "-1:00:00.0005" is -3600000, "-1h 00m 00.0005s" is -3599999
C16_Witness ==
    /\ Returned
    /\ raw = Core(raw)
    /\ PlainClock(raw, TRUE)
    /\ ~isInteger(ClockTerms(raw, -1, -1, -1))
    /\ CallAlone(AsTokens(raw)).kind = "return"
    /\ CallAlone(AsTokens(raw)) # outcome
    /\ ~IsZero(Number(Unsigned(Segment(raw, 1))))

====
